---- MODULE Spec2Model ----
(***************************************************************************)
(* Multi Steam (src/multisteam.py): a PyQt6 shell that runs several        *)
(* isolated browser sessions in one window.  The model covers the policy   *)
(* layer: profile registry, focus switching, popup routing, the health     *)
(* monitor's reload timers and the log:pass import walker.                 *)
(*                                                                         *)
(* Text is modelled as a sequence of chunks (a chunk is a piece of a       *)
(* string that the code never looks inside), so that endswith / in /       *)
(* startswith / split are computed and not assumed.  A profile name is the *)
(* string f"Steam {n}".  A handler of the single event thread is one       *)
(* action; a modal dialog that re-enters the event loop while a handler    *)
(* still has work to do after it is a state of its own (prompt).           *)
(***************************************************************************)
EXTENDS Integers, Sequences, FiniteSets, TLC

\* ---------------------------------------------------------------- bounds
MaxNames == 2
MaxContexts == 3
MaxPopups == 2
MaxWalkers == 2
MaxImportSessions == 2
MaxElapsedMs == 1200
MaxBlankElapsedMs == 21000
MaxTimers == 2
START_MS == 6000
MaxTextLen == 4

\* ------------------------------------------------------- program constants
COOLDOWN_MS == 5000
RELOAD_DELAY_MS == 150
BLANK_JS_DELAY_MS == 400
PROGRESS_DELAY_MS == 800
CREATE_DELAY_MS == 1000
MAX_BLANK_TRIES == 3
MIN_HTML_LEN == 50
PANEL_WIDTH == 320
LEFTBAR_WIDTH == 160

\* ------------------------------------------------------------------ text
Max(a, b) == IF a >= b THEN a ELSE b
Min(a, b) == IF a <= b THEN a ELSE b

\* str.endswith on chunk sequences
EndsWith(s, t) ==
    /\ Len(t) <= Len(s)
    /\ SubSeq(s, Len(s) - Len(t) + 1, Len(s)) = t

\* `t in s` on chunk sequences
Contains(s, t) ==
    \E i \in 1..(Len(s) - Len(t) + 1) : SubSeq(s, i, i + Len(t) - 1) = t

\* f"Steam {n}"
SteamName(n) ==
    CASE n = 1 -> "Steam 1"
      [] n = 2 -> "Steam 2"
      [] n = 3 -> "Steam 3"
      [] n = 4 -> "Steam 4"
      [] OTHER -> "Steam 5+"

\* ------------------------------------------------------------------ URLs
\* A URL string is <<scheme, host chunks..., path chunks...>>; the empty QUrl
\* is <<>>.  A path chunk begins with "/".
Schemes == {"https://", "http://"}
PathChunks == {"/", "/login", "/home/?goto="}

EMPTY_URL == <<>>
ABOUT_BLANK == <<"about:blank">>
DEFAULT_HOME_URL == <<"https://", "steamcommunity.com", "/">>
LOGIN_PAGE_URL == <<"https://", "steamcommunity.com", "/login", "/home/?goto=">>
LOGIN_HOST_URL == <<"https://", "login", ".", "steampowered.com", "/login">>
OTHER_SITE_URL == <<"https://", "example.com", "/">>

RECURSIVE HostFrom(_, _)
HostFrom(u, i) ==
    IF i > Len(u) \/ u[i] \in PathChunks THEN <<>>
    ELSE <<u[i]>> \o HostFrom(u, i + 1)

\* QUrl.host()
Host(u) == IF Len(u) >= 1 /\ u[1] \in Schemes THEN HostFrom(u, 2) ELSE <<>>

SteamHosts ==
    { <<"steamcommunity.com">>,
      <<"store", ".", "steampowered.com">>,
      <<"help", ".", "steampowered.com">>,
      <<"login", ".", "steampowered.com">> }

isSteamUrl(u) == \E h \in SteamHosts : EndsWith(Host(u), h)

urlIsLogin(u) ==
    /\ \E i \in 1..Len(u) : u[i] \in {"login", "/login"}
    /\ EndsWith(Host(u), <<"steamcommunity.com">>)

IsBlankUrl(u) == u = EMPTY_URL \/ u = ABOUT_BLANK


\* ----------------------------------------------------------- dictionaries
Put(f, k, v) == [x \in (DOMAIN f) \cup {k} |-> IF x = k THEN v ELSE f[x]]
Drop(f, k) ==
    IF (DOMAIN f) \ {k} = {} THEN <<>> ELSE [x \in (DOMAIN f) \ {k} |-> f[x]]
\* dict.get(k, d)
Get(f, k, d) == IF k \in DOMAIN f THEN f[k] ELSE d
EmptyDict == <<>>

RECURSIVE Without(_, _)
\* list.remove(x): the first occurrence only
Without(seq, x) ==
    IF seq = <<>> THEN <<>>
    ELSE IF Head(seq) = x THEN Tail(seq)
    ELSE <<Head(seq)>> \o Without(Tail(seq), x)

Range(seq) == { seq[i] : i \in 1..Len(seq) }

\* ------------------------------------------------------------------ state
VARIABLES
    proc,             \* "running" | "aborted": the process (an uncaught exception
                      \* in a slot makes PyQt6 call qFatal, which aborts)
    cfg,              \* config.json on disk
    dirs,             \* profile names whose storage directory exists on disk
    files,            \* text files the operator can pick: path -> characters
    warnLog,          \* names for which "Failed to remove profile dir" was logged
    profiles,         \* MultiBrowser.profiles
    lastActive,       \* MultiBrowser.lastActive
    currentName,      \* MultiBrowser.currentName (and the current_name property)
    browsers,         \* MultiBrowser.browsers: name -> view id
    popupsByProfile,  \* MultiBrowser.popupsByProfile: name -> list of popup ids
    lastUrls,         \* MultiBrowser.lastUrls
    accountsVisible,  \* MultiBrowser.accountsVisible
    accountsPanelDefaultWidth,  \* MultiBrowser.accountsPanelDefaultWidth
    leftBarWidth,     \* MultiBrowser.leftBarWidth
    accountList,      \* item texts of the accounts QListWidget
    layout,           \* widgets of browserLayout, the visible slot
    contexts,         \* every QWebEngineProfile constructed in this run
    views,            \* live session surfaces (BrowserView + Page): id -> fields
    popups,           \* live PopupWindow objects: id -> fields
    nPopups,          \* popups constructed in this run
    zombies,          \* popups closed by deleteProfile, deletion still posted
    importCtl,        \* MultiBrowser._importCtl: 0 is None, else index in walkers
    lastImportFile,   \* MultiBrowser._last_import_file ("" is None)
    lastImportLines,  \* MultiBrowser._last_import_lines
    lastImportIndex,  \* MultiBrowser._last_import_index
    walkers,          \* every ImportLogPassController constructed in this run
    prompt,           \* the open Copy/Skip/Stop message box of onProfileAdded
    clipboard,        \* QApplication.clipboard() text
    now,              \* QDateTime.currentMSecsSinceEpoch()
    timers,           \* pending QTimer.singleShot / engine callbacks
    lastOp,           \* observation: the handler that completed last
    lastReload        \* observation: the reload that was executed last

vars == << proc, cfg, dirs, files, warnLog, profiles, lastActive, currentName,
           browsers, popupsByProfile, lastUrls, accountsVisible,
           accountsPanelDefaultWidth, leftBarWidth, accountList, layout, contexts, views, popups,
           nPopups, zombies, importCtl, lastImportFile, lastImportLines,
           lastImportIndex, walkers, prompt, clipboard, now, timers, lastOp,
           lastReload >>

\* The program state as one value, so that a handler is a function of it.
S == [ proc |-> proc, cfg |-> cfg, dirs |-> dirs, warnLog |-> warnLog,
       profiles |-> profiles, lastActive |-> lastActive,
       currentName |-> currentName, browsers |-> browsers,
       popupsByProfile |-> popupsByProfile, lastUrls |-> lastUrls,
       accountsVisible |-> accountsVisible,
       accountsPanelDefaultWidth |-> accountsPanelDefaultWidth,
       leftBarWidth |-> leftBarWidth,
       accountList |-> accountList, layout |-> layout, contexts |-> contexts,
       views |-> views, popups |-> popups, nPopups |-> nPopups,
       zombies |-> zombies, importCtl |-> importCtl,
       lastImportFile |-> lastImportFile, lastImportLines |-> lastImportLines,
       lastImportIndex |-> lastImportIndex, walkers |-> walkers,
       prompt |-> prompt, clipboard |-> clipboard, now |-> now,
       timers |-> timers, lastReload |-> lastReload ]

Commit(s) ==
    /\ proc' = s.proc /\ cfg' = s.cfg /\ dirs' = s.dirs /\ warnLog' = s.warnLog
    /\ profiles' = s.profiles /\ lastActive' = s.lastActive
    /\ currentName' = s.currentName /\ browsers' = s.browsers
    /\ popupsByProfile' = s.popupsByProfile /\ lastUrls' = s.lastUrls
    /\ accountsVisible' = s.accountsVisible
    /\ accountsPanelDefaultWidth' = s.accountsPanelDefaultWidth
    /\ leftBarWidth' = s.leftBarWidth /\ files' = files
    /\ accountList' = s.accountList /\ layout' = s.layout
    /\ contexts' = s.contexts /\ views' = s.views /\ popups' = s.popups
    /\ nPopups' = s.nPopups /\ zombies' = s.zombies /\ importCtl' = s.importCtl
    /\ lastImportFile' = s.lastImportFile
    /\ lastImportLines' = s.lastImportLines
    /\ lastImportIndex' = s.lastImportIndex /\ walkers' = s.walkers
    /\ prompt' = s.prompt /\ clipboard' = s.clipboard /\ now' = s.now
    /\ timers' = s.timers /\ lastReload' = s.lastReload

NoPrompt == [open |-> FALSE, w |-> 0, idx |-> 0, name |-> ""]
NoOp == [op |-> "none", name |-> "", arg |-> ""]
NoReload == [view |-> 0, pname |-> "", at |-> 0, prev |-> 0, focused |-> "",
             by |-> "none"]


\* ----------------------------------------------------------------- config
\* A JSON value as json.dumps takes it and json.loads returns it: t is the
\* Python type and v the value (a dict is a function of its keys, a list a
\* sequence).
JStr(x) == [t |-> "str", v |-> x]
JInt(n) == [t |-> "int", v |-> n]
JBool(b) == [t |-> "bool", v |-> b]
JNone == [t |-> "NoneType", v |-> 0]
JList(items) == [t |-> "list", v |-> items]
JDict(members) == [t |-> "dict", v |-> members]

\* config.json: exists is Path.exists(), parses tells whether json.loads
\* accepts the text, doc is the value it returns
NoFile == [exists |-> FALSE, parses |-> FALSE, doc |-> JNone]
NotJson == [exists |-> TRUE, parses |-> FALSE, doc |-> JNone]
JsonFile(doc) == [exists |-> TRUE, parses |-> TRUE, doc |-> doc]

\* the dict o that saveConfig serializes (win_geometry is left out with the
\* window geometry)
ConfigDocument(s) ==
    JDict([ profiles |-> JList([i \in 1..Len(s.profiles) |->
                                   JStr(s.profiles[i])]),
            last_active |-> JStr(s.lastActive),
            last_urls |-> JDict([k \in DOMAIN s.lastUrls |->
                                    JStr(s.lastUrls[k])]),
            accounts_visible |-> JBool(s.accountsVisible),
            accounts_panel_width |-> JInt(s.accountsPanelDefaultWidth),
            leftbar_width |-> JInt(s.leftBarWidth) ])

\* MultiBrowser.saveConfig: the whole document is rewritten
saveConfig(s) == [s EXCEPT !.cfg = JsonFile(ConfigDocument(s))]

\* PyQt6: an exception that leaves a slot ends in qFatal(): the process is gone,
\* the files stay.
Abort(s) ==
    [s EXCEPT !.proc = "aborted", !.profiles = <<>>, !.lastActive = "",
              !.currentName = "", !.browsers = EmptyDict,
              !.popupsByProfile = EmptyDict, !.lastUrls = EmptyDict,
              !.accountsVisible = FALSE,
              !.accountsPanelDefaultWidth = PANEL_WIDTH,
              !.leftBarWidth = LEFTBAR_WIDTH,
              !.accountList = <<>>, !.layout = <<>>, !.contexts = <<>>,
              !.views = EmptyDict, !.popups = EmptyDict, !.nPopups = 0,
              !.zombies = {}, !.importCtl = 0, !.lastImportFile = "",
              !.lastImportLines = <<>>, !.lastImportIndex = 0, !.walkers = <<>>,
              !.prompt = NoPrompt, !.timers = {}, !.lastReload = NoReload]

\* MultiBrowser.toggleAccountsPanel
toggleAccountsPanel(s) ==
    saveConfig([s EXCEPT !.accountsVisible = ~s.accountsVisible])

\* ------------------------------------------------------------ import walker
\* ImportLogPassController.stop; the stopped signal runs the owner's lambda
\* setattr(self, "_importCtl", None)
WalkerStop(s, w) ==
    IF ~s.walkers[w].active THEN s
    ELSE [s EXCEPT !.walkers[w].active = FALSE, !.importCtl = 0]

\* ImportLogPassController.finishAll (the information box has no effect)
finishAll(s, w) == WalkerStop(s, w)

\* ImportLogPassController.onUrlChanged
onUrlChanged(s, w, url) ==
    LET c == s.walkers[w] IN
    IF ~c.active \/ c.index >= Len(c.lines) THEN s
    ELSE IF isSteamUrl(url) /\ ~urlIsLogin(url) THEN
        LET s1 == [s EXCEPT !.walkers[w].index = c.index + 1,
                            !.lastImportIndex = c.index + 1]
        IN IF c.index + 1 >= Len(c.lines) THEN finishAll(s1, w) ELSE s1
    ELSE s

RECURSIVE EmitCurrentUrlChangedFrom(_, _, _)
\* currentUrlChanged.emit(u): the connected walkers, in connection order (a
\* stopped walker is disconnected, and its handler returns at once anyway)
EmitCurrentUrlChangedFrom(s, url, w) ==
    IF w > Len(s.walkers) THEN s
    ELSE EmitCurrentUrlChangedFrom(onUrlChanged(s, w, url), url, w + 1)

\* the second half of _onUrlChanged without the save
RecordLastUrl_NoSave(s, u, v) ==
    IF s.views[v].pname # ""
    THEN [s EXCEPT !.lastUrls = Put(s.lastUrls, s.views[v].pname, u)]
    ELSE s

\* the second half of MultiBrowser._onUrlChanged: the address is recorded under
\* the surface's _profile_name and the config is saved
RecordLastUrl(s, u, v) ==
    IF s.views[v].pname # ""
    THEN saveConfig([s EXCEPT !.lastUrls =
                         Put(s.lastUrls, s.views[v].pname, u)])
    ELSE s

\* MultiBrowser._onUrlChanged(u, view), connected in createProfile
OwnerOnUrlChanged(s, u, v) ==
    RecordLastUrl(IF /\ s.currentName # ""
                     /\ s.currentName \in DOMAIN s.browsers
                     /\ s.browsers[s.currentName] = v
                  THEN EmitCurrentUrlChangedFrom(s, u, 1)
                  ELSE s,
                  u, v)

\* QWebEngineView.setUrl on a session surface: QWebEnginePage::setUrl stores the
\* url and emits urlChanged before it returns, when the url differs
setUrl(s, v, u) ==
    IF s.views[v].url = u THEN s
    ELSE OwnerOnUrlChanged([s EXCEPT !.views[v].url = u], u, v)

\* MultiBrowser._onUrlChanged(u, view) for the surface of a profile that
\* deleteProfile has popped from browsers and handed to deleteLater: the
\* surface is no session's, its _profile_name is still name
UrlChangedOfDeleted(s, name, u) ==
    saveConfig([s EXCEPT !.lastUrls = Put(s.lastUrls, name, u)])

\* ------------------------------------------------------------------ popups
\* showPopupsFor without the test of the key: every registered popup is shown
showPopupsFor_ShowAll(s, profileName) ==
    [s EXCEPT !.popups =
        [p \in DOMAIN s.popups |->
            IF \E key \in DOMAIN s.popupsByProfile :
                   p \in Range(s.popupsByProfile[key])
            THEN [s.popups[p] EXCEPT !.shown = TRUE]
            ELSE s.popups[p]]]

\* MultiBrowser.showPopupsFor
showPopupsFor(s, profileName) ==
    [s EXCEPT !.popups =
        [p \in DOMAIN s.popups |->
            IF \E key \in DOMAIN s.popupsByProfile :
                   p \in Range(s.popupsByProfile[key])
            THEN [s.popups[p] EXCEPT !.shown =
                     \E key \in DOMAIN s.popupsByProfile :
                         /\ p \in Range(s.popupsByProfile[key])
                         /\ key = profileName]
            ELSE s.popups[p]]]

\* ------------------------------------------------------------------- focus
\* restore if restore else DEFAULT_HOME_URL, with restore = lastUrls.get(acc, "")
RestoreUrl(s, acc) ==
    IF Get(s.lastUrls, acc, EMPTY_URL) # EMPTY_URL
    THEN Get(s.lastUrls, acc, EMPTY_URL)
    ELSE DEFAULT_HOME_URL

\* switchAccount: an empty or about:blank surface is sent to its last address
LoadIfBlank(s, acc) ==
    IF IsBlankUrl(s.views[s.browsers[acc]].url)
    THEN setUrl(s, s.browsers[acc], RestoreUrl(s, acc))
    ELSE s

\* switchAccount, its end: lastActive, saveConfig, showPopupsFor
SwitchTail(s, acc) ==
    showPopupsFor(saveConfig([s EXCEPT !.lastActive = acc]), acc)

\* switchAccount that adds the surface without emptying browserLayout first
switchAccount_NoClear(s, acc) ==
    IF acc \notin DOMAIN s.browsers THEN s
    ELSE SwitchTail(
            LoadIfBlank([s EXCEPT !.layout = Append(s.layout, s.browsers[acc]),
                                  !.currentName = acc], acc),
            acc)

\* MultiBrowser.switchAccount
switchAccount(s, acc) ==
    IF acc \notin DOMAIN s.browsers THEN s
    ELSE SwitchTail(
            LoadIfBlank([s EXCEPT !.layout = <<s.browsers[acc]>>,
                                  !.currentName = acc], acc),
            acc)


\* --------------------------------------------------------- profile creation
RECURSIVE NextSteamIndex(_, _)
NextSteamIndex(b, n) ==
    IF SteamName(n) \in DOMAIN b THEN NextSteamIndex(b, n + 1) ELSE n

\* nextSteamName without the search for a free number
nextSteamName_First(b) == SteamName(1)

\* MultiBrowser.nextSteamName
nextSteamName(b) == SteamName(NextSteamIndex(b, 1))

NewView(name, ctx) ==
    [pname |-> name, ctx |-> ctx, url |-> EMPTY_URL, last_fix_ms |-> 0,
     lastRenderReloadMs |-> 0, last_blank_fix_ms |-> 0, blank_fix_tries |-> 0,
     html |-> MIN_HTML_LEN, domEmpty |-> FALSE, reloadedAt |-> 0,
     blankStreak |-> 0]

\* MultiBrowser.createProfile: profileDir makes the directory, a new engine
\* profile is bound to it, a new surface is registered under the name
createProfile(s, name, doSwitch) ==
    LET id == Len(s.contexts) + 1
        s1 == [s EXCEPT
                 !.dirs = s.dirs \cup {name},
                 !.contexts = Append(s.contexts, [dir |-> name]),
                 !.views = Put(s.views, id, NewView(name, id)),
                 !.browsers = Put(s.browsers, name, id),
                 !.timers = s.timers \cup
                     {[kind |-> "create", view |-> id,
                       due |-> s.now + CREATE_DELAY_MS]}]
    IN IF doSwitch THEN switchAccount(s1, name) ELSE s1

\* onProfileAdded: login, pwd = self.lines[self.index], then mb.exec() opens
\* the Copy/Skip/Stop box
OpenPrompt(s, name, w) ==
    [s EXCEPT !.prompt = [open |-> TRUE, w |-> w, idx |-> s.walkers[w].index,
                          name |-> name],
              !.walkers[w].first =
                  IF s.walkers[w].first = -1 THEN s.walkers[w].index
                  ELSE s.walkers[w].first]

RECURSIVE OnProfileAddedFrom(_, _, _)
\* profileAdded.emit(name): ImportLogPassController.onProfileAdded of each
\* connected walker, up to the message box it opens
OnProfileAddedFrom(s, name, w) ==
    IF w > Len(s.walkers) THEN [s EXCEPT !.prompt = NoPrompt]
    ELSE
        LET c == s.walkers[w] IN
        IF ~c.active \/ c.index >= Len(c.lines) \/ name \notin DOMAIN s.browsers
        THEN OnProfileAddedFrom(s, name, w + 1)
        ELSE OpenPrompt(IF ~urlIsLogin(s.views[s.browsers[name]].url)
                        THEN setUrl(s, s.browsers[name], LOGIN_PAGE_URL)
                        ELSE s,
                        name, w)

\* MultiBrowser.navigateCurrent: browsers[currentName] raises KeyError when the
\* name is not registered
navigateCurrent(s, url) ==
    IF s.currentName = "" THEN s
    ELSE IF s.currentName \notin DOMAIN s.browsers THEN Abort(s)
    ELSE setUrl(s, s.browsers[s.currentName], url)

\* MultiBrowser.navigateToUrl: the text of the address bar gets https:// in
\* front unless it starts with a scheme; browsers[currentName] as above
navigateToUrl(s, text) ==
    IF s.currentName = "" THEN s
    ELSE IF s.currentName \notin DOMAIN s.browsers THEN Abort(s)
    ELSE setUrl(s, s.browsers[s.currentName],
                IF text[1] \in Schemes \cup {"chrome://"} THEN text
                ELSE <<"https://">> \o text)

\* MultiBrowser.callOnCurrent with v.back(), v.forward() or v.reload(): reload
\* keeps the address, back and forward go to the address to of the history
callOnCurrent(s, fn, to) ==
    IF s.currentName = "" THEN s
    ELSE IF s.currentName \notin DOMAIN s.browsers THEN Abort(s)
    ELSE IF fn = "reload" THEN s
    ELSE setUrl(s, s.browsers[s.currentName], to)

\* addAccount after createProfile: the list item, profiles, lastActive,
\* saveConfig
ListAccount(s, acc) ==
    saveConfig([s EXCEPT !.accountList = Append(s.accountList, acc),
                         !.profiles = IF acc \in Range(s.profiles)
                                      THEN s.profiles
                                      ELSE Append(s.profiles, acc),
                         !.lastActive = acc])

\* addAccount: a surface still empty is navigated through navigateCurrent
NavigateIfBlank(s, acc) ==
    IF IsBlankUrl(s.views[s.browsers[acc]].url)
    THEN navigateCurrent(s, RestoreUrl(s, acc))
    ELSE s

\* addAccount, its end: profileAdded.emit(acc)
EmitProfileAdded(s, acc) ==
    IF s.proc = "aborted" THEN s ELSE OnProfileAddedFrom(s, acc, 1)

\* addAccount for the name acc
addAccountAs(s, acc) ==
    EmitProfileAdded(
        NavigateIfBlank(ListAccount(createProfile(s, acc, TRUE), acc), acc),
        acc)

\* MultiBrowser.addAccount
addAccount(s) == addAccountAs(s, nextSteamName(s.browsers))

\* The text put on the clipboard: f"{login}:{pwd}"
TextLine(pair) == pair[1] \o <<":">> \o pair[2]

\* ImportLogPassController.onProfileAdded after mb.exec() returns, then the
\* rest of profileAdded.emit
AnswerPrompt(s, choice) ==
    LET w == s.prompt.w
        c == s.walkers[w]
        s1 == CASE choice = "Stop" -> WalkerStop(s, w)
                [] choice = "Skip" ->
                     LET t == [s EXCEPT !.walkers[w].index = c.index + 1]
                     IN IF c.index + 1 >= Len(c.lines) THEN finishAll(t, w)
                        ELSE t
                [] OTHER ->
                     [s EXCEPT !.clipboard = TextLine(c.lines[s.prompt.idx + 1])]
    IN OnProfileAddedFrom(s1, s.prompt.name, w + 1)

\* ---------------------------------------------------------------- deletion
\* deleteProfile without its call of saveConfig
deleteProfile_NoSave(s, name, yes, rmFails) ==
    IF name \notin DOMAIN s.browsers \/ ~yes THEN s
    ELSE
        LET v == s.browsers[name]
            mine == Range(Get(s.popupsByProfile, name, <<>>))
            s1 == [s EXCEPT
                     !.browsers = Drop(s.browsers, name),
                     !.layout = SelectSeq(s.layout, LAMBDA x : x # v),
                     !.views = Drop(s.views, v),
                     !.popups = [p \in DOMAIN s.popups |->
                                   IF p \in mine
                                   THEN [s.popups[p] EXCEPT !.shown = FALSE]
                                   ELSE s.popups[p]],
                     !.zombies = s.zombies \cup mine,
                     !.popupsByProfile = Drop(s.popupsByProfile, name),
                     !.dirs = IF rmFails THEN s.dirs \cup {name}
                              ELSE s.dirs \ {name},
                     !.warnLog = IF rmFails THEN s.warnLog \cup {name}
                                 ELSE s.warnLog,
                     !.accountList = SelectSeq(s.accountList,
                                               LAMBDA x : x # name),
                     !.profiles = Without(s.profiles, name),
                     !.lastUrls = Drop(s.lastUrls, name)]
            s2 == [s1 EXCEPT !.lastActive = IF s1.profiles # <<>>
                                            THEN s1.profiles[1] ELSE ""]
        IN IF s2.lastActive # "" THEN switchAccount(s2, s2.lastActive) ELSE s2

\* deleteProfile after the confirmation without the switchAccount at its end
DeleteConfirmed_NoSwitch(s, name, rmFails) ==
    LET v == s.browsers[name]
        mine == Range(Get(s.popupsByProfile, name, <<>>))
        s1 == [s EXCEPT
                 !.browsers = Drop(s.browsers, name),
                 !.layout = SelectSeq(s.layout, LAMBDA x : x # v),
                 !.views = Drop(s.views, v),
                 !.popups = [p \in DOMAIN s.popups |->
                               IF p \in mine
                               THEN [s.popups[p] EXCEPT !.shown = FALSE]
                               ELSE s.popups[p]],
                 !.zombies = s.zombies \cup mine,
                 !.popupsByProfile = Drop(s.popupsByProfile, name),
                 !.dirs = IF rmFails THEN s.dirs \cup {name}
                          ELSE s.dirs \ {name},
                 !.warnLog = IF rmFails THEN s.warnLog \cup {name}
                             ELSE s.warnLog,
                 !.accountList = SelectSeq(s.accountList,
                                           LAMBDA x : x # name),
                 !.profiles = Without(s.profiles, name),
                 !.lastUrls = Drop(s.lastUrls, name)]
        s2 == saveConfig(
                [s1 EXCEPT !.lastActive = IF s1.profiles # <<>>
                                          THEN s1.profiles[1] ELSE ""])
    IN s2

\* MultiBrowser.deleteProfile after the confirmation (lines 635-669); rmFails
\* says whether shutil.rmtree raises.  The surface is dropped with deleteLater,
\* each popup of the name is closed (hidden, deletion posted) and the registry
\* key is popped.
DeleteConfirmed(s, name, rmFails) ==
    LET v == s.browsers[name]
        mine == Range(Get(s.popupsByProfile, name, <<>>))
        s1 == [s EXCEPT
                 !.browsers = Drop(s.browsers, name),
                 !.layout = SelectSeq(s.layout, LAMBDA x : x # v),
                 !.views = Drop(s.views, v),
                 !.popups = [p \in DOMAIN s.popups |->
                               IF p \in mine
                               THEN [s.popups[p] EXCEPT !.shown = FALSE]
                               ELSE s.popups[p]],
                 !.zombies = s.zombies \cup mine,
                 !.popupsByProfile = Drop(s.popupsByProfile, name),
                 !.dirs = IF rmFails THEN s.dirs \cup {name}
                          ELSE s.dirs \ {name},
                 !.warnLog = IF rmFails THEN s.warnLog \cup {name}
                             ELSE s.warnLog,
                 !.accountList = SelectSeq(s.accountList,
                                           LAMBDA x : x # name),
                 !.profiles = Without(s.profiles, name),
                 !.lastUrls = Drop(s.lastUrls, name)]
        s2 == saveConfig(
                [s1 EXCEPT !.lastActive = IF s1.profiles # <<>>
                                          THEN s1.profiles[1] ELSE ""])
    IN IF s2.lastActive # "" THEN switchAccount(s2, s2.lastActive) ELSE s2

\* deleteProfile without the question box
deleteProfile_NoConfirm(s, name, yes, rmFails) ==
    IF name \notin DOMAIN s.browsers THEN s
    ELSE DeleteConfirmed(s, name, rmFails)

\* MultiBrowser.deleteProfile(name); yes is the answer to the question box
deleteProfile(s, name, yes, rmFails) ==
    IF name \notin DOMAIN s.browsers \/ ~yes THEN s
    ELSE DeleteConfirmed(s, name, rmFails)


\* ------------------------------------------------------------ popup routing
\* A surface that can open a window: a session surface or a popup's child view
OpenerAlive(s, o) ==
    IF o.kind = "view" THEN o.id \in DOMAIN s.views
    ELSE o.id \in DOMAIN s.popups /\ o.id \notin s.zombies

OpenerName(s, o) ==
    IF o.kind = "view" THEN s.views[o.id].pname ELSE s.popups[o.id].pname

OpenerCtx(s, o) ==
    IF o.kind = "view" THEN s.views[o.id].ctx ELSE s.popups[o.id].ctx

\* MultiBrowser.registerPopup
registerPopup(s, profileName, win) ==
    [s EXCEPT !.popupsByProfile =
        Put(s.popupsByProfile, profileName,
            Append(Get(s.popupsByProfile, profileName, <<>>), win))]

\* unregisterPopup that leaves the registry as it is
unregisterPopup_Keep(s, profileName, win) == s

\* MultiBrowser.unregisterPopup
unregisterPopup(s, profileName, win) ==
    LET arr == Get(s.popupsByProfile, profileName, <<>>) IN
    IF arr = <<>> THEN s
    ELSE LET rest == Without(arr, win) IN
         [s EXCEPT !.popupsByProfile =
             IF rest = <<>> THEN Drop(s.popupsByProfile, profileName)
             ELSE Put(s.popupsByProfile, profileName, rest)]

\* createWindow registering the popup under the focused name instead of the
\* opener's
createWindow_CurrentName(s, o) ==
    LET id == s.nPopups + 1
        s1 == [s EXCEPT
                 !.nPopups = id,
                 !.popups = Put(s.popups, id,
                     [pname |-> OpenerName(s, o), ctx |-> OpenerCtx(s, o),
                      opener |-> o, shown |-> TRUE])]
    IN registerPopup(s1, s.currentName, id)

\* BrowserView.createWindow of opener o
createWindow(s, o) ==
    LET name == OpenerName(s, o)
        id == s.nPopups + 1
        s1 == [s EXCEPT
                 !.nPopups = id,
                 !.popups = Put(s.popups, id,
                     [pname |-> name, ctx |-> OpenerCtx(s, o), opener |-> o,
                      shown |-> (s.currentName = name)])]
    IN registerPopup(s1, name, id)

\* A popup is closed (by the user or by windowCloseRequested): WA_DeleteOnClose
\* deletes it and destroyed runs the lambda of createWindow, which reads
\* _profile_name off the opener; the opener may be gone by then, and the read
\* then raises
popupDestroyed(s, p) ==
    LET o == s.popups[p].opener
        s1 == [s EXCEPT !.popups = Drop(s.popups, p),
                        !.zombies = s.zombies \ {p}]
    IN IF OpenerAlive(s, o) THEN unregisterPopup(s1, OpenerName(s, o), p)
       ELSE Abort(s1)

\* ----------------------------------------------------------------- startup
\* str(x) of a JSON value (the documents of the model hold no number where
\* loadConfig applies str)
StrOf(x) ==
    CASE x.t = "str" -> x.v
      [] x.t = "NoneType" -> "None"
      [] x.t = "bool" -> IF x.v THEN "True" ELSE "False"

\* bool(x) of a JSON value
Truthy(x) ==
    CASE x.t = "bool" -> x.v
      [] x.t = "int" -> x.v # 0
      [] x.t = "NoneType" -> FALSE
      [] x.t = "str" -> x.v # ""
      [] x.t = "list" -> x.v # <<>>
      [] x.t = "dict" -> DOMAIN x.v # {}

\* int(x) succeeds (the documents of the model hold no str where loadConfig
\* applies int; None, a list and a dict raise TypeError)
IntOk(x) == x.t \in {"int", "bool"}
IntOf(x) == IF x.t = "bool" THEN (IF x.v THEN 1 ELSE 0) ELSE x.v

\* loadConfig, lines 759-761: an exception leaves __init__ and main, the
\* process ends
LoadUi(s, o) ==
    LET w == Get(o, "accounts_panel_width", JInt(s.accountsPanelDefaultWidth))
        b == Get(o, "leftbar_width", JInt(s.leftBarWidth))
    IN IF ~IntOk(w) \/ ~IntOk(b) THEN Abort(s)
       ELSE [s EXCEPT !.accountsVisible =
                          Truthy(Get(o, "accounts_visible", JBool(FALSE))),
                      !.accountsPanelDefaultWidth = IntOf(w),
                      !.leftBarWidth = IntOf(b)]

\* loadConfig, line 756: anything but a dict has no items()
LoadLastUrls(s, o) ==
    LET x == Get(o, "last_urls", JDict(EmptyDict)) IN
    IF x.t # "dict" THEN Abort(s)
    ELSE LoadUi([s EXCEPT !.lastUrls = [k \in DOMAIN x.v |-> StrOf(x.v[k])]],
                o)

\* line 755 with another key than saveConfig writes
LoadLastActive_WrongKey(s, o) ==
    LoadLastUrls([s EXCEPT !.lastActive =
                      StrOf(Get(o, "lastActive", JStr("")))], o)

\* loadConfig, line 755
LoadLastActive(s, o) ==
    LoadLastUrls([s EXCEPT !.lastActive =
                      StrOf(Get(o, "last_active", JStr("")))], o)

\* loadConfig, line 754: a number, a bool and None are not iterable (the
\* documents of the model hold no str and no dict under "profiles")
LoadProfiles(s, o) ==
    LET x == Get(o, "profiles", JList(<<>>)) IN
    CASE x.t \in {"int", "bool", "NoneType"} -> Abort(s)
      [] x.t = "list" ->
            LoadLastActive([s EXCEPT !.profiles =
                               [i \in 1..Len(x.v) |-> StrOf(x.v[i])]], o)

\* MultiBrowser.loadConfig: an absent file and a text json.loads rejects leave
\* the defaults of __init__; o.get on anything but a dict raises
\* AttributeError outside the try
loadConfig(s) ==
    IF ~s.cfg.exists \/ ~s.cfg.parses THEN s
    ELSE IF s.cfg.doc.t # "dict" THEN Abort(s)
    ELSE LoadProfiles(s, s.cfg.doc.v)

\* MultiBrowser._accountListAddItem
AddListItem(s, name) ==
    [s EXCEPT !.accountList = Append(s.accountList, name)]

RECURSIVE CreateSaved(_, _)
\* the loop over self.profiles in MultiBrowser.__init__
CreateSaved(s, i) ==
    IF i > Len(s.profiles) THEN s
    ELSE CreateSaved(AddListItem(createProfile(s, s.profiles[i], FALSE),
                                 s.profiles[i]),
                     i + 1)

Fresh(file, disk, log, clip, t) ==
    [ proc |-> "running", cfg |-> file, dirs |-> disk, warnLog |-> log,
      profiles |-> <<>>, lastActive |-> "", currentName |-> "",
      browsers |-> EmptyDict, popupsByProfile |-> EmptyDict,
      lastUrls |-> EmptyDict, accountsVisible |-> FALSE,
      accountsPanelDefaultWidth |-> PANEL_WIDTH,
      leftBarWidth |-> LEFTBAR_WIDTH, accountList |-> <<>>, layout |-> <<>>,
      contexts |-> <<>>, views |-> EmptyDict, popups |-> EmptyDict,
      nPopups |-> 0, zombies |-> {}, importCtl |-> 0, lastImportFile |-> "",
      lastImportLines |-> <<>>, lastImportIndex |-> 0, walkers |-> <<>>,
      prompt |-> NoPrompt, clipboard |-> clip, now |-> t, timers |-> {},
      lastReload |-> NoReload ]

\* MultiBrowser.__init__, its end: the saved focus is restored when that
\* profile exists
FocusLastActive(s) ==
    IF s.lastActive \in DOMAIN s.browsers THEN switchAccount(s, s.lastActive)
    ELSE s

\* MultiBrowser.__init__
Startup(file, disk, log, clip, t) ==
    FocusLastActive(CreateSaved(loadConfig(Fresh(file, disk, log, clip, t)), 1))


\* ------------------------------------------------------------ log:pass file
\* A file's text is a sequence of characters.
NewlineChars == {"\n", "\r"}
Whitespace == {" ", "\t", "\n", "\r"}

RECURSIVE LStrip(_)
LStrip(x) == IF x # <<>> /\ Head(x) \in Whitespace THEN LStrip(Tail(x)) ELSE x

RECURSIVE RStrip(_)
RStrip(x) ==
    IF x # <<>> /\ x[Len(x)] \in Whitespace
    THEN RStrip(SubSeq(x, 1, Len(x) - 1)) ELSE x

\* str.strip()
Strip(x) == RStrip(LStrip(x))

RECURSIVE SplitLines(_, _)
\* re.split(r"[\r\n]+", raw): cur is the piece being read
SplitLines(raw, cur) ==
    IF raw = <<>> THEN <<cur>>
    ELSE IF Head(raw) \in NewlineChars
         THEN IF Len(raw) >= 2 /\ raw[2] \in NewlineChars
              THEN SplitLines(Tail(raw), cur)
              ELSE <<cur>> \o SplitLines(Tail(raw), <<>>)
         ELSE SplitLines(Tail(raw), Append(cur, Head(raw)))

RECURSIVE IndexOf(_, _, _)
\* str.find from position i; 0 when absent
IndexOf(x, ch, i) ==
    IF i > Len(x) THEN 0 ELSE IF x[i] = ch THEN i ELSE IndexOf(x, ch, i + 1)

\* the loop body without the strip of the two fields
ParseLine_NoFieldStrip(ln) ==
    LET line == Strip(ln) IN
    IF line = <<>> \/ Head(line) = "#" THEN <<>>
    ELSE LET k == IndexOf(line, ":", 1) IN
         IF k = 0 THEN <<>>
         ELSE LET login == SubSeq(line, 1, k - 1)
                  pwd == SubSeq(line, k + 1, Len(line))
              IN IF login # <<>> /\ pwd # <<>> THEN << <<login, pwd>> >>
                 ELSE <<>>

\* one iteration of the loop of parse_logpass_file: the pairs a line adds
ParseLine(ln) ==
    LET line == Strip(ln) IN
    IF line = <<>> \/ Head(line) = "#" THEN <<>>
    ELSE LET k == IndexOf(line, ":", 1) IN
         IF k = 0 THEN <<>>
         ELSE LET login == Strip(SubSeq(line, 1, k - 1))
                  pwd == Strip(SubSeq(line, k + 1, Len(line)))
              IN IF login # <<>> /\ pwd # <<>> THEN << <<login, pwd>> >>
                 ELSE <<>>

RECURSIVE ParseLines(_)
ParseLines(lns) ==
    IF lns = <<>> THEN <<>> ELSE ParseLine(Head(lns)) \o ParseLines(Tail(lns))

\* The files on disk in most runs; any other path does not exist.
FileText ==
    [ abc |-> << "a", ":", "1", "\n", "b", ":", "2", "\r", "\n", "#", " ", "x",
                 "\n", "\n", " ", "c", " ", ":", "3" >>,
      bad |-> << "#", "a", ":", "1", "\n", "n", "o", "\n", ":", "1", "\n", "a",
                 ":", " " >>,
      empty |-> << >> ]

\* parse_logpass_file(path)
parse_logpass_file(path) ==
    IF path \notin DOMAIN files THEN <<>>
    ELSE ParseLines(SplitLines(files[path], <<>>))

\* QFileDialog.getOpenFileName results: a cancelled dialog gives "", and the
\* file "gone" is removed before it is read
Paths == {"", "gone"} \cup DOMAIN files

\* ImportLogPassController.__init__
NewWalker(lines, start_index) ==
    [lines |-> lines, index |-> Max(0, Min(start_index, Len(lines))),
     active |-> TRUE, start |-> Max(0, Min(start_index, Len(lines))),
     first |-> -1]

\* the tail without the stop of the active walker
Supersede_NoStop(s, lines, start_index) ==
    LET ws == Append(s.walkers, NewWalker(lines, start_index))
    IN [s EXCEPT !.walkers = ws, !.importCtl = Len(ws)]

\* the tail shared by both ways to start: stop the active walker, construct one
Supersede(s, lines, start_index) ==
    LET s1 == IF s.importCtl # 0 /\ s.walkers[s.importCtl].active
              THEN WalkerStop(s, s.importCtl) ELSE s
        ws == Append(s1.walkers, NewWalker(lines, start_index))
    IN [s1 EXCEPT !.walkers = ws, !.importCtl = Len(ws)]

\* startImportLogPass without the test of the parsed list
startImportLogPass_NoEmptyTest(s, path) ==
    IF path = "" THEN s
    ELSE Supersede([s EXCEPT !.lastImportFile = path,
                             !.lastImportLines = parse_logpass_file(path),
                             !.lastImportIndex = 0],
                   parse_logpass_file(path), 0)

\* MultiBrowser.startImportLogPass
startImportLogPass(s, path) ==
    IF path = "" THEN s
    ELSE LET lines == parse_logpass_file(path) IN
         IF lines = <<>> THEN s
         ELSE Supersede([s EXCEPT !.lastImportFile = path,
                                  !.lastImportLines = lines,
                                  !.lastImportIndex = 0], lines, 0)

\* MultiBrowser._importLogPassContextMenu with "set start line" chosen: path is
\* the file dialog's answer, idx and ok are QInputDialog.getInt's
importLogPassContextMenu(s, path, idx, ok) ==
    LET lines == parse_logpass_file(path)
        s1 == IF s.lastImportLines = <<>>
              THEN [s EXCEPT !.lastImportFile = path, !.lastImportLines = lines,
                             !.lastImportIndex = 0]
              ELSE s
    IN IF s.lastImportLines = <<>> /\ (path = "" \/ lines = <<>>) THEN s
       ELSE IF ~ok THEN s1
       ELSE Supersede([s1 EXCEPT !.lastImportIndex = idx - 1],
                      s1.lastImportLines, idx - 1)


\* ----------------------------------------------------------- health monitor
\* A console message is a sequence of chunks.
FatalMarks == {"ChunkLoadError", "jQuery is not defined",
               "Prototype is not defined"}
IsFatalMsg(msg) == \E i \in 1..Len(msg) : msg[i] \in FatalMarks
Messages == { <<"Uncaught ", "ChunkLoadError", ": chunk 7 failed">>,
              <<"deprecated call">> }

AddTimer(s, kind, v, delay) ==
    [s EXCEPT !.timers = s.timers \cup
        {[kind |-> kind, view |-> v, due |-> s.now + delay]}]

\* triggerAction(ReloadAndBypassCache) on surface v, and what an observer sees
Reload(s, v, by) ==
    [s EXCEPT !.views[v].reloadedAt = s.now,
              !.views[v].blankStreak =
                  IF by \in {"html", "js"} THEN s.views[v].blankStreak + 1
                  ELSE s.views[v].blankStreak,
              !.lastReload = [view |-> v, pname |-> s.views[v].pname,
                              at |-> s.now, prev |-> s.views[v].reloadedAt,
                              focused |-> s.currentName, by |-> by]]

\* Page.javaScriptConsoleMessage
javaScriptConsoleMessage(s, v, msg) ==
    IF ~IsFatalMsg(msg) THEN s
    ELSE IF s.currentName # s.views[v].pname THEN s
    ELSE IF s.now - s.views[v].last_fix_ms > COOLDOWN_MS
         THEN AddTimer([s EXCEPT !.views[v].last_fix_ms = s.now],
                       "reloadConsole", v, RELOAD_DELAY_MS)
         ELSE s

\* BrowserView._onRenderCrash
onRenderCrash(s, v) ==
    IF s.currentName # s.views[v].pname THEN s
    ELSE IF s.now - s.views[v].lastRenderReloadMs < COOLDOWN_MS THEN s
    ELSE AddTimer([s EXCEPT !.views[v].lastRenderReloadMs = s.now],
                  "reloadCrash", v, RELOAD_DELAY_MS)

\* BrowserView._onProgress
onProgress(s, v, percent) ==
    IF percent = 100 THEN AddTimer(s, "progress", v, PROGRESS_DELAY_MS) ELSE s

\* BrowserView.postLoadHealthcheck: toHtml is asked for, _postBlankJS is timed
postLoadHealthcheck(s, v) ==
    IF s.currentName # s.views[v].pname THEN s
    ELSE IF IsBlankUrl(s.views[v].url) THEN s
    ELSE AddTimer(AddTimer(s, "toHtml", v, 0), "blankJS", v, BLANK_JS_DELAY_MS)

\* after_html(html) inside postLoadHealthcheck; len is the length of the
\* stripped document text
after_html(s, v, len) ==
    LET vw == s.views[v] IN
    IF len > 0 /\ len >= MIN_HTML_LEN
    THEN [s EXCEPT !.views[v].blank_fix_tries = 0]
    ELSE IF vw.blank_fix_tries < MAX_BLANK_TRIES
            /\ s.now - vw.last_blank_fix_ms > COOLDOWN_MS
         THEN Reload([s EXCEPT !.views[v].last_blank_fix_ms = s.now,
                               !.views[v].blank_fix_tries =
                                   vw.blank_fix_tries + 1],
                     v, "html")
         ELSE s

\* BrowserView._maybeReloadOnBlank(res) with res = {empty: isBlank}
maybeReloadOnBlank(s, v, isBlank) ==
    LET vw == s.views[v] IN
    IF isBlank /\ s.now - vw.last_blank_fix_ms > COOLDOWN_MS
       /\ vw.blank_fix_tries < MAX_BLANK_TRIES
    THEN Reload([s EXCEPT !.views[v].last_blank_fix_ms = s.now,
                          !.views[v].blank_fix_tries = vw.blank_fix_tries + 1],
                v, "js")
    ELSE s

\* The callback or timer t fires.  A lambda that touches a deleted surface
\* raises; a timer bound to a method of a deleted surface, or a callback of a
\* deleted page, is dropped.
fireTimer(s, t) ==
    LET s1 == [s EXCEPT !.timers = s.timers \ {t}]
        v == t.view
    IN IF v \notin DOMAIN s.views
       THEN IF t.kind \in {"create", "progress", "reloadConsole", "reloadCrash"}
            THEN Abort(s1) ELSE s1
       ELSE CASE t.kind = "create" ->
                   IF ~IsBlankUrl(s.views[v].url)
                   THEN postLoadHealthcheck(s1, v) ELSE s1
              [] t.kind = "progress" ->
                   IF s.currentName = s.views[v].pname
                   THEN postLoadHealthcheck(s1, v) ELSE s1
              [] t.kind = "toHtml" -> after_html(s1, v, s.views[v].html)
              [] t.kind = "blankJS" -> AddTimer(s1, "jsResult", v, 0)
              [] t.kind = "jsResult" ->
                   maybeReloadOnBlank(s1, v, s.views[v].domEmpty)
              [] t.kind = "reloadConsole" -> Reload(s1, v, "console")
              [] OTHER -> Reload(s1, v, "crash")


\* ---------------------------------------------------------------- actions
\* The operator can act on the main window: no modal box is open
UiFree == proc = "running" /\ ~prompt.open /\ zombies = {}
\* The engine's events are delivered; posted deletions go first
EngineFree == proc = "running" /\ zombies = {}

NavUrls == {DEFAULT_HOME_URL, LOGIN_PAGE_URL, LOGIN_HOST_URL, OTHER_SITE_URL}
PageKinds == { [html |-> 50, domEmpty |-> FALSE], [html |-> 50, domEmpty |-> TRUE],
               [html |-> 49, domEmpty |-> TRUE], [html |-> 0, domEmpty |-> FALSE] }
Openers(s) ==
    { [kind |-> "view", id |-> v] : v \in DOMAIN s.views } \cup
    { [kind |-> "popup", id |-> p] : p \in (DOMAIN s.popups) \ s.zombies }

Did(op, name, arg) == lastOp' = [op |-> op, name |-> name, arg |-> arg]

AddAccount ==
    /\ UiFree
    /\ Len(contexts) < MaxContexts
    /\ NextSteamIndex(browsers, 1) <= MaxNames
    /\ Commit(addAccount(S))
    /\ Did("addAccount", nextSteamName(browsers), "")

SwitchAccount ==
    /\ UiFree
    /\ \E acc \in Range(accountList) :
          /\ Commit(switchAccount(S, acc))
          /\ Did("switchAccount", acc, "")

DeleteProfile ==
    /\ UiFree
    /\ \E name \in Range(accountList), yes \in BOOLEAN, rmFails \in BOOLEAN :
          /\ Commit(deleteProfile(S, name, yes, rmFails))
          /\ Did("deleteProfile", name, IF yes THEN "yes" ELSE "no")

\* the posted deletions of deleteProfile run: the surface went first, so the
\* destroyed handler of the first popup finds its opener gone
DeferredDelete ==
    /\ proc = "running"
    /\ zombies # {}
    /\ \E p \in zombies :
          /\ \A q \in zombies : p <= q
          /\ Commit(popupDestroyed(S, p))
          /\ Did("deferredDelete", "", "")

Navigate ==
    /\ EngineFree
    /\ \E v \in DOMAIN views, u \in NavUrls :
          /\ u # views[v].url
          /\ Commit(setUrl(S, v, u))
          /\ Did("urlChanged", views[v].pname, "")

PopupOpen ==
    /\ EngineFree
    /\ nPopups < MaxPopups
    /\ \E o \in Openers(S) :
          /\ Commit(createWindow(S, o))
          /\ Did("createWindow", OpenerName(S, o), "")

PopupClose ==
    /\ EngineFree
    /\ \E p \in DOMAIN popups :
          /\ Commit(popupDestroyed(S, p))
          /\ Did("popupClose", popups[p].pname, "")

StartImport ==
    /\ UiFree
    /\ Len(walkers) < MaxWalkers
    /\ \E path \in Paths :
          /\ Commit(startImportLogPass(S, path))
          /\ Did("startImport", "", path)

SetStartLine ==
    /\ UiFree
    /\ Len(walkers) < MaxWalkers
    /\ \E path \in Paths, ok \in BOOLEAN :
          LET lines == IF lastImportLines = <<>> THEN parse_logpass_file(path)
                       ELSE lastImportLines
          IN \E idx \in 1..Max(1, Len(lines)) :
                /\ Commit(importLogPassContextMenu(S, path, idx, ok))
                /\ Did("setStartLine", "", path)

Answer ==
    /\ proc = "running"
    /\ prompt.open
    /\ \E choice \in {"Copy", "Skip", "Stop"} :
          /\ Commit(AnswerPrompt(S, choice))
          /\ Did("answer", prompt.name, choice)

\* deleteLater only posts the deletion of the surface: a navigation that the
\* engine has queued by then is delivered, with urlChanged, before the surface
\* is deleted
LateUrlChanged ==
    /\ proc = "running"
    /\ lastOp.op = "deleteProfile"
    /\ lastOp.arg = "yes"
    /\ lastOp.name \notin DOMAIN browsers
    /\ \E u \in NavUrls :
          /\ Commit(UrlChangedOfDeleted(S, lastOp.name, u))
          /\ Did("urlChanged", lastOp.name, "late")

\* what the operator types into the address bar
TypedTexts == { DEFAULT_HOME_URL, <<"example.com", "/">>,
                <<"http://", "example.com", "/">> }

\* the toolbar button Steam Community
NavigateCurrent ==
    /\ UiFree
    /\ Commit(navigateCurrent(S, DEFAULT_HOME_URL))
    /\ Did("navigateCurrent", currentName, "")

\* Enter in the address bar
NavigateToUrl ==
    /\ UiFree
    /\ \E text \in TypedTexts :
          /\ Commit(navigateToUrl(S, text))
          /\ Did("navigateToUrl", currentName, "")

\* the toolbar buttons back, forward and reload
CallOnCurrent ==
    /\ UiFree
    /\ \E fn \in {"back", "forward", "reload"}, to \in NavUrls :
          /\ Commit(callOnCurrent(S, fn, to))
          /\ Did("callOnCurrent", currentName, fn)

ToggleAccountsPanel ==
    /\ UiFree
    /\ Commit(toggleAccountsPanel(S))
    /\ Did("toggleAccountsPanel", "", "")

\* the window is closed (closeEvent saves the config) and the program is
\* started again
Restart ==
    /\ UiFree
    /\ Commit(Startup(saveConfig(S).cfg, dirs, warnLog, clipboard, now))
    /\ Did("startup", "", "")

\* the program is started again after an abort
Relaunch ==
    /\ proc = "aborted"
    /\ Commit(Startup(cfg, dirs, warnLog, clipboard, now))
    /\ Did("startup", "", "")

ConsoleMessage ==
    /\ EngineFree
    /\ Cardinality(timers) < MaxTimers
    /\ \E v \in DOMAIN views, msg \in Messages :
          /\ Commit(javaScriptConsoleMessage(S, v, msg))
          /\ Did("console", views[v].pname, "")

RenderCrash ==
    /\ EngineFree
    /\ Cardinality(timers) < MaxTimers
    /\ \E v \in DOMAIN views :
          /\ Commit(onRenderCrash(S, v))
          /\ Did("crash", views[v].pname, "")

LoadFinished ==
    /\ EngineFree
    /\ Cardinality(timers) < MaxTimers
    /\ \E v \in DOMAIN views :
          /\ Commit(onProgress(S, v, 100))
          /\ Did("progress", views[v].pname, "")

FireTimer ==
    /\ EngineFree
    /\ \E t \in timers :
          /\ t.due <= now
          /\ Commit(fireTimer(S, t))
          /\ Did("timer", "", t.kind)

\* the page of a surface changes what it shows
PageContent ==
    /\ EngineFree
    /\ \E v \in DOMAIN views, k \in PageKinds :
          /\ <<views[v].html, views[v].domEmpty>> # <<k.html, k.domEmpty>>
          /\ Commit([S EXCEPT !.views[v].html = k.html,
                              !.views[v].domEmpty = k.domEmpty,
                              !.views[v].blankStreak = 0])
          /\ Did("page", views[v].pname, "")

\* time passes once every timer that is due has fired: the event loop is
\* responsive, a timer fires at the first instant at or after its due time
TickBy(steps, limit) ==
    /\ proc = "running"
    /\ \A t \in timers : t.due > now
    /\ \E d \in steps :
          /\ now + d <= START_MS + limit
          /\ now' = now + d
          /\ lastOp' = lastOp
          /\ UNCHANGED << proc, cfg, dirs, files, warnLog, profiles, lastActive,
                          currentName, browsers, popupsByProfile, lastUrls,
                          accountsVisible, accountsPanelDefaultWidth,
                          leftBarWidth, accountList, layout, contexts, views, popups, nPopups,
                          zombies, importCtl, lastImportFile, lastImportLines,
                          lastImportIndex, walkers, prompt, clipboard, timers,
                          lastReload >>

Tick == TickBy({150, 400}, MaxElapsedMs)

\* small steps while a timer is pending, a cooldown's length otherwise
LongTick == TickBy(IF timers = {} THEN {5001} ELSE {400}, MaxBlankElapsedMs)

\* a load finishes while no check is under way
IdleLoadFinished == timers = {} /\ LoadFinished

\* the first profile is added
AddFirstAccount == contexts = <<>> /\ AddAccount

\* a profile is added while few exist
AddImportAccount == Len(contexts) < MaxImportSessions /\ AddAccount

\* ImportLogPassController(owner, lines, start_index) for any start index the
\* constructor's clamp accepts; the two menu handlers pass 0 .. len(lines) - 1
ConstructWalker ==
    /\ UiFree
    /\ Len(walkers) < MaxWalkers
    /\ \E start_index \in -1 .. Len(parse_logpass_file("abc")) + 1 :
          /\ Commit(Supersede(S, parse_logpass_file("abc"), start_index))
          /\ Did("construct", "", "abc")

\* ---------------------------------------------------------- specifications
\* the program has been launched and __init__ has returned state s
Launched(s) ==
    /\ proc = s.proc /\ cfg = s.cfg /\ dirs = s.dirs /\ warnLog = s.warnLog
    /\ profiles = s.profiles /\ lastActive = s.lastActive
    /\ currentName = s.currentName /\ browsers = s.browsers
    /\ popupsByProfile = s.popupsByProfile /\ lastUrls = s.lastUrls
    /\ accountsVisible = s.accountsVisible
    /\ accountsPanelDefaultWidth = s.accountsPanelDefaultWidth
    /\ leftBarWidth = s.leftBarWidth
    /\ accountList = s.accountList /\ layout = s.layout
    /\ contexts = s.contexts /\ views = s.views /\ popups = s.popups
    /\ nPopups = s.nPopups /\ zombies = s.zombies /\ importCtl = s.importCtl
    /\ lastImportFile = s.lastImportFile /\ lastImportLines = s.lastImportLines
    /\ lastImportIndex = s.lastImportIndex /\ walkers = s.walkers
    /\ prompt = s.prompt /\ clipboard = s.clipboard /\ now = s.now
    /\ timers = s.timers /\ lastReload = s.lastReload
    /\ lastOp = [op |-> "startup", name |-> "", arg |-> ""]

\* first launch: no config file, no profile directory
Init ==
    /\ files = FileText
    /\ Launched(Startup(NoFile, {}, {}, <<>>, START_MS))

\* sessions, focus, popups, deletion, restart
Next ==
    \/ AddAccount
    \/ SwitchAccount
    \/ DeleteProfile
    \/ DeferredDelete
    \/ Navigate
    \/ PopupOpen
    \/ PopupClose
    \/ Restart
    \/ Relaunch

Spec == Init /\ [][Next]_vars

\* config.json as the first launch of a run finds it: absent, not JSON, JSON
\* of another shape, or a document the program wrote
ConfigDocs ==
    << NoFile,
       NotJson,
       JsonFile(JList(<<>>)),
       JsonFile(JDict(EmptyDict)),
       JsonFile(JDict([profiles |-> JNone])),
       JsonFile(JDict([profiles |-> JList(<<JStr(SteamName(1))>>),
                       last_active |-> JStr(SteamName(1)),
                       last_urls |-> JList(<<>>)])),
       JsonFile(JDict([profiles |-> JList(<<JStr(SteamName(1))>>),
                       accounts_panel_width |-> JNone])),
       JsonFile(JDict([last_active |-> JNone])),
       JsonFile(ConfigDocument(
           [profiles |-> <<SteamName(1), SteamName(2)>>,
            lastActive |-> SteamName(2),
            lastUrls |-> Put(EmptyDict, SteamName(1), LOGIN_PAGE_URL),
            accountsVisible |-> TRUE, accountsPanelDefaultWidth |-> 400,
            leftBarWidth |-> LEFTBAR_WIDTH])),
       JsonFile(ConfigDocument(
           [profiles |-> <<SteamName(2)>>,
            lastActive |-> SteamName(1),
            lastUrls |-> Put(EmptyDict, SteamName(1), OTHER_SITE_URL),
            accountsVisible |-> FALSE, accountsPanelDefaultWidth |-> PANEL_WIDTH,
            leftBarWidth |-> LEFTBAR_WIDTH])) >>

\* a launch on any of these files
InitConfig ==
    /\ files = FileText
    /\ \E i \in 1..Len(ConfigDocs) :
          Launched(Startup(ConfigDocs[i], {}, {}, <<>>, START_MS))

\* sessions and the config file
NextConfig ==
    \/ AddAccount
    \/ SwitchAccount
    \/ DeleteProfile
    \/ Navigate
    \/ ToggleAccountsPanel
    \/ Restart
    \/ Relaunch

SpecConfig == InitConfig /\ [][NextConfig]_vars

\* the characters of the drawn file and its texts
TextChars == {"a", ":", "#", " ", "\n", "\r"}
Texts == UNION { [1..n -> TextChars] : n \in 0..MaxTextLen }

\* first launch with one more file on disk, of any text
InitParse ==
    /\ \E raw \in Texts :
          files = [p \in DOMAIN FileText \cup {"drawn"} |->
                     IF p = "drawn" THEN raw ELSE FileText[p]]
    /\ Launched(Startup(NoFile, {}, {}, <<>>, START_MS))

\* the operator starts imports
NextParse == StartImport

SpecParse == InitParse /\ [][NextParse]_vars

\* sessions that are deleted while their pages navigate
NextLate ==
    \/ AddAccount
    \/ SwitchAccount
    \/ DeleteProfile
    \/ Navigate
    \/ LateUrlChanged

SpecLate == Init /\ [][NextLate]_vars

\* the orders in which config.json can list three profiles
SavedOrders ==
    { ps \in [1..3 -> {SteamName(1), SteamName(2), SteamName(3)}] :
          \A i, j \in 1..3 : ps[i] = ps[j] => i = j }

\* a launch on a config.json the program wrote with three profiles
InitFocus ==
    /\ files = FileText
    /\ \E ps \in SavedOrders, la \in {SteamName(1), SteamName(2), SteamName(3)} :
          Launched(Startup(
              JsonFile(ConfigDocument(
                  [profiles |-> ps, lastActive |-> la, lastUrls |-> EmptyDict,
                   accountsVisible |-> FALSE,
                   accountsPanelDefaultWidth |-> PANEL_WIDTH,
                   leftBarWidth |-> LEFTBAR_WIDTH])),
              {SteamName(1), SteamName(2), SteamName(3)}, {}, <<>>, START_MS))

\* focus among three sessions that are deleted one by one
NextFocus ==
    \/ AddAccount
    \/ SwitchAccount
    \/ DeleteProfile
    \/ Restart

SpecFocus == InitFocus /\ [][NextFocus]_vars

\* sessions and the toolbar
NextToolbar ==
    \/ AddAccount
    \/ SwitchAccount
    \/ DeleteProfile
    \/ NavigateCurrent
    \/ NavigateToUrl
    \/ CallOnCurrent
    \/ Relaunch

SpecToolbar == Init /\ [][NextToolbar]_vars

\* the import walker among sessions
NextImport ==
    \/ AddImportAccount
    \/ SwitchAccount
    \/ Navigate
    \/ StartImport
    \/ SetStartLine
    \/ Answer

SpecImport == Init /\ [][NextImport]_vars

\* the walker as a component: constructed with any start index
NextWalker ==
    \/ AddImportAccount
    \/ SwitchAccount
    \/ Navigate
    \/ ConstructWalker
    \/ Answer

SpecWalker == Init /\ [][NextWalker]_vars

\* the health monitor among sessions, with the clock
NextHealth ==
    \/ AddImportAccount
    \/ SwitchAccount
    \/ ConsoleMessage
    \/ RenderCrash
    \/ FireTimer
    \/ Tick

SpecHealth == Init /\ [][NextHealth]_vars

\* the health monitor's timers among sessions that are deleted
NextTimers ==
    \/ AddFirstAccount
    \/ DeleteProfile
    \/ ConsoleMessage
    \/ RenderCrash
    \/ LoadFinished
    \/ FireTimer
    \/ Tick
    \/ Relaunch

SpecTimers == Init /\ [][NextTimers]_vars

\* the blank-render detector on one session, over a long time
NextBlank ==
    \/ AddFirstAccount
    \/ IdleLoadFinished
    \/ FireTimer
    \/ PageContent
    \/ LongTick

SpecBlank == Init /\ [][NextBlank]_vars


\* ------------------------------------------------------------------ claims
Running == proc = "running"

\* the fields loadConfig restores
ConfigMemory(s) ==
    [profiles |-> s.profiles, lastActive |-> s.lastActive,
     lastUrls |-> s.lastUrls, accountsVisible |-> s.accountsVisible,
     accountsPanelDefaultWidth |-> s.accountsPanelDefaultWidth,
     leftBarWidth |-> s.leftBarWidth]

\* what a launch of the program would load from config.json as it is on disk
Persisted == ConfigMemory(loadConfig(Fresh(cfg, dirs, warnLog, clipboard, now)))

\* C1: any two automatic recovery reloads of one session, whichever detectors
\* issued them, are more than 5000 ms apart.
C1_SharedCooldown ==
    (lastReload.by # "none" /\ lastReload.prev # 0)
        => lastReload.at - lastReload.prev > COOLDOWN_MS

\* C2: a recovery reload is executed only on the session that is focused at the
\* moment the reload is executed.
C2_ReloadOnlyFocused ==
    lastReload.by # "none" => lastReload.focused = lastReload.pname

\* C3: while the page of a session stays blank, the blank-render detector (both
\* checks together) issues at most 3 reloads.
C3_AtMostThreeBlankReloads ==
    \A v \in DOMAIN views : views[v].blankStreak <= MAX_BLANK_TRIES

\* C4: in every reachable state the cursor of every import walker lies in
\* 0 .. length of its pair list, also when a navigation event of the focused
\* session is delivered while the Copy/Skip/Stop prompt is open.
C4_CursorInRange ==
    \A w \in 1..Len(walkers) :
        /\ 0 <= walkers[w].index
        /\ walkers[w].index <= Len(walkers[w].lines)

\* one step of C5: an Active walker's cursor does not decrease, and a
\* navigation event leaves a Stopped walker as it is
C5_Step ==
    \A w \in 1..Len(walkers) :
        w <= Len(walkers') =>
            /\ (walkers[w].active /\ walkers'[w].active)
                   => walkers'[w].index >= walkers[w].index
            /\ (~walkers[w].active /\ lastOp'.op = "urlChanged")
                   => walkers'[w] = walkers[w]

C6_FirstPresentedIsStart ==
    \A w \in 1..Len(walkers) :
        walkers[w].first # -1 =>
            /\ walkers[w].first < Len(walkers[w].lines)
            /\ walkers[w].lines[walkers[w].first + 1]
                   = walkers[w].lines[walkers[w].start + 1]

\* C7: after startup, addAccount, switchAccount and deleteProfile: when a
\* session exists the focus pointer names a session of the live registry, and
\* when none exists no session is focused.
C7_ExactlyOneFocused ==
    (Running /\ lastOp.op \in {"startup", "addAccount", "switchAccount",
                               "deleteProfile"})
        => IF DOMAIN browsers # {}
           THEN currentName \in DOMAIN browsers
           ELSE currentName = ""

\* C8: after every completed operation each registered popup is shown if and
\* only if the session that owns it is the focused one.
C8_PopupVisibleIffOwnerFocused ==
    Running =>
        \A key \in DOMAIN popupsByProfile :
            \A p \in Range(popupsByProfile[key]) :
                /\ p \in DOMAIN popups
                /\ popups[p].shown <=> (key = currentName)

\* two sessions own one registered popup each, the focus was just switched:
\* the focused session's popup is shown, the other one is hidden
C8_Witness ==
    /\ Running
    /\ lastOp.op = "switchAccount"
    /\ \E p, q \in DOMAIN popups :
          /\ popups[p].pname = currentName
          /\ popups[q].pname # currentName
          /\ p \in Range(Get(popupsByProfile, popups[p].pname, <<>>))
          /\ q \in Range(Get(popupsByProfile, popups[q].pname, <<>>))
          /\ popups[p].shown
          /\ ~popups[q].shown

\* C9: every popup, also one opened from a popup, uses the browsing context
\* of the surface that requested it and is registered under that surface's
\* session name, and under no other name.
C9_PopupBoundToOpener ==
    \A p \in (DOMAIN popups) \ zombies :
        /\ \A key \in DOMAIN popupsByProfile :
              p \in Range(popupsByProfile[key]) <=> key = popups[p].pname
        /\ popups[p].pname \in DOMAIN browsers
        /\ popups[p].ctx = views[browsers[popups[p].pname]].ctx
        /\ contexts[popups[p].ctx].dir = popups[p].pname
        /\ OpenerAlive(S, popups[p].opener) =>
              /\ OpenerName(S, popups[p].opener) = popups[p].pname
              /\ OpenerCtx(S, popups[p].opener) = popups[p].ctx

\* a popup was opened from a popup of a session that is not the focused one
C9_Witness ==
    /\ Running
    /\ lastOp.op = "createWindow"
    /\ \E p \in DOMAIN popups :
          /\ popups[p].opener.kind = "popup"
          /\ popups[p].pname # currentName
          /\ p \in Range(Get(popupsByProfile, popups[p].pname, <<>>))

\* C10: after a confirmed deleteProfile(name): name is not in the persisted
\* profile list, no popup is registered under name and every popup of name is
\* closed, the directory of name is gone or the failure was logged, and name
\* is in neither the profile list nor the live registry.
C10_DeleteRemovesProfile ==
    (lastOp.op = "deleteProfile" /\ lastOp.arg = "yes") =>
        /\ cfg.exists
        /\ lastOp.name \notin Range(Persisted.profiles)
        /\ lastOp.name \notin DOMAIN popupsByProfile
        /\ \A p \in DOMAIN popups :
              popups[p].pname = lastOp.name
                  => (p \in zombies /\ ~popups[p].shown)
        /\ (lastOp.name \notin dirs \/ lastOp.name \in warnLog)
        /\ lastOp.name \notin Range(profiles)
        /\ lastOp.name \notin DOMAIN browsers
        /\ lastOp.name \notin Range(accountList)

\* the last profile, which owned a popup, was deleted and removing its
\* directory failed
C10_Witness ==
    /\ lastOp.op = "deleteProfile"
    /\ lastOp.arg = "yes"
    /\ zombies # {}
    /\ lastOp.name \in dirs
    /\ lastOp.name \in warnLog
    /\ profiles = <<>>

\* C11: the storage directory of a profile is removed only after the
\* profile's browsing context and all its popups have been destroyed: in no
\* state is the directory of a name gone while a browsing context that stores
\* into it, or a popup window of that name, still exists.
C11_DirRemovedAfterDestroy ==
    Running =>
        \A n \in {contexts[i].dir : i \in 1..Len(contexts)}
                 \cup {popups[p].pname : p \in DOMAIN popups} :
            n \in dirs

\* C12: no two live browsing contexts created through createProfile use the
\* same storage directory: each name has at most one live context.
C12_OneContextPerDir ==
    Running =>
        \A i, j \in 1..Len(contexts) :
            contexts[i].dir = contexts[j].dir => i = j

\* one step of C13
C13_Step ==
    /\ Cardinality({w \in 1..Len(walkers') : walkers'[w].active}) <= 1
    /\ \A w \in 1..Len(walkers) :
          /\ w <= Len(walkers')
          /\ Len(walkers') > Len(walkers) => ~walkers'[w].active
          /\ ~walkers[w].active =>
                /\ ~walkers'[w].active
                /\ lastOp'.op \in {"addAccount", "urlChanged"}
                       => walkers'[w] = walkers[w]

\* C13: at most one import walker is Active at any time; starting a new import
\* (button or "set start line") stops the Active walker before the new one is
\* constructed; a Stopped walker never becomes Active again and does not react
\* to profile-creation or navigation events.
C13_OneActiveWalker == [][C13_Step]_vars

\* a walker that was never presented and had pairs left is Stopped, the walker
\* started after it is Active
C13_Witness ==
    /\ Running
    /\ lastOp.op \in {"startImport", "setStartLine"}
    /\ Len(walkers) = 2
    /\ ~walkers[1].active
    /\ walkers[1].first = -1
    /\ walkers[1].index < Len(walkers[1].lines)
    /\ walkers[2].active
    /\ importCtl = 2

\* C14: after switchAccount, addAccount, a confirmed deleteProfile, the
\* accounts-panel toggle and a URL change of any session, the persisted config
\* equals the in-memory state: ordered profile list, last-active name and
\* last-URL map.
C14_ConfigMatchesMemory ==
    (/\ Running
     /\ lastOp.op \in {"switchAccount", "addAccount", "deleteProfile",
                       "toggleAccountsPanel", "urlChanged"}
     /\ lastOp.op = "deleteProfile" => lastOp.arg = "yes")
        => /\ cfg.exists
           /\ Persisted.profiles = profiles
           /\ Persisted.lastActive = lastActive
           /\ Persisted.lastUrls = lastUrls

\* a background session navigated while two profiles exist; the address is in
\* memory and on disk
C14_Witness ==
    /\ Running
    /\ lastOp.op = "urlChanged"
    /\ lastOp.name # currentName
    /\ Len(profiles) = 2
    /\ lastOp.name \in DOMAIN lastUrls
    /\ lastOp.name \in DOMAIN Persisted.lastUrls
    /\ lastUrls[lastOp.name] = OTHER_SITE_URL

\* one step of C15: the step is a start of an import (button, or "set start
\* line" with nothing remembered) whose file gives no pair
C15_Step ==
    (/\ parse_logpass_file(lastOp'.arg) = <<>>
     /\ \/ lastOp'.op = "startImport" /\ lastOp'.arg # ""
        \/ lastOp'.op = "setStartLine" /\ lastImportLines = <<>>)
        => UNCHANGED << walkers, importCtl, lastImportFile, lastImportLines,
                        lastImportIndex, prompt, proc >>

\* C15: starting an import from a source that yields no valid pair (missing
\* file, empty file, or only blank, comment and malformed lines) aborts without
\* partial state: no walker is constructed, an Active walker stays Active with
\* its cursor unchanged, and the remembered file, list and index are unchanged.
C15_EmptyImportNoEffect == [][C15_Step]_vars

\* an import of a file of comment and malformed lines was just refused while a
\* walker that has advanced is Active
C15_Witness ==
    /\ Running
    /\ lastOp.op = "startImport"
    /\ lastOp.arg \in {"bad", "empty", "gone"}
    /\ importCtl # 0
    /\ walkers[importCtl].active
    /\ walkers[importCtl].index > 0
    /\ lastImportFile = "abc"
    /\ lastImportIndex > 0

\* one step of C16
C16_Step ==
    (/\ lastOp'.op = "deleteProfile"
     /\ lastOp'.arg = "no" \/ lastOp'.name \notin DOMAIN browsers)
        => UNCHANGED << browsers, views, popupsByProfile, popups, zombies, dirs,
                        warnLog, profiles, accountList, lastUrls, lastActive,
                        currentName, layout, cfg, proc >>

\* C16: a deleteProfile(name) that the operator declines, or whose name is not
\* a known session, changes nothing: the live registry, the popup registry,
\* the storage directory, the profile list, the URL map, last-active, the focus
\* and the persisted config are as before.
C16_DeclinedDeleteNoEffect == [][C16_Step]_vars

\* the deletion of the focused profile, which owns a shown popup, was declined
C16_Witness ==
    /\ Running
    /\ lastOp.op = "deleteProfile"
    /\ lastOp.arg = "no"
    /\ lastOp.name = currentName
    /\ lastOp.name \in DOMAIN browsers
    /\ lastOp.name \in DOMAIN popupsByProfile
    /\ \E p \in Range(popupsByProfile[lastOp.name]) : popups[p].shown
    /\ lastOp.name \in dirs
    /\ Len(profiles) = 2

\* the file holds a config document: a JSON object whose known keys, where
\* present, hold values of the types saveConfig writes
C17_ValidDocument ==
    /\ cfg.exists
    /\ cfg.parses
    /\ cfg.doc.t = "dict"
    /\ LET o == cfg.doc.v
           p == Get(o, "profiles", JList(<<>>))
           u == Get(o, "last_urls", JDict(EmptyDict))
       IN /\ p.t = "list"
          /\ \A i \in 1..Len(p.v) : p.v[i].t = "str"
          /\ Get(o, "last_active", JStr("")).t = "str"
          /\ u.t = "dict"
          /\ \A k \in DOMAIN u.v : u.v[k].t = "str"
          /\ Get(o, "accounts_visible", JBool(FALSE)).t = "bool"
          /\ Get(o, "accounts_panel_width", JInt(PANEL_WIDTH)).t = "int"
          /\ Get(o, "leftbar_width", JInt(LEFTBAR_WIDTH)).t = "int"

\* C17: a launch that finds config.json absent, or finds content that fails to
\* load as a valid config document, goes on (loading is not fatal) with the
\* defaults: empty profile list, empty last-active, empty URL map, default
\* layout values; no field is populated from the bad document.
C17_BadConfigGivesDefaults ==
    (lastOp.op = "startup" /\ ~C17_ValidDocument)
        => /\ Running
           /\ ConfigMemory(S)
                = ConfigMemory(Fresh(cfg, dirs, warnLog, clipboard, now))

\* the text of x between its first and its last character that is no
\* whitespace
C18_Trim(x) ==
    LET ink == {k \in 1..Len(x) : x[k] \notin Whitespace} IN
    IF ink = {} THEN <<>>
    ELSE SubSeq(x, CHOOSE k \in ink : \A m \in ink : k <= m,
                   CHOOSE k \in ink : \A m \in ink : k >= m)

\* the pair a line stands for, if it stands for one
C18_Pairs(ln) ==
    LET x == C18_Trim(ln)
        colons == {k \in 1..Len(x) : x[k] = ":"}
    IN IF x = <<>> \/ x[1] = "#" \/ colons = {} THEN <<>>
       ELSE LET c == CHOOSE k \in colons : \A m \in colons : k <= m
                login == C18_Trim(SubSeq(x, 1, c - 1))
                pwd == C18_Trim(SubSeq(x, c + 1, Len(x)))
            IN IF login = <<>> \/ pwd = <<>> THEN <<>>
               ELSE << <<login, pwd>> >>

RECURSIVE C18_From(_, _)
\* the pairs of the lines of raw that begin at position i or later
C18_From(raw, i) ==
    IF i > Len(raw) THEN <<>>
    ELSE LET ends == {j \in i..Len(raw) : raw[j] \in NewlineChars}
             e == IF ends = {} THEN Len(raw) + 1
                  ELSE CHOOSE j \in ends : \A m \in ends : j <= m
         IN C18_Pairs(SubSeq(raw, i, e - 1)) \o C18_From(raw, e + 1)

\* C18: parse_logpass_file returns, in input order, exactly one pair (trimmed
\* login, trimmed password) for every line that after trimming is non-empty,
\* does not begin with '#', contains ':' and has non-empty trimmed text on both
\* sides of its first ':'; every other line adds nothing.  A started import
\* holds exactly these pairs.
C18_ParseExact ==
    /\ \A p \in DOMAIN files : parse_logpass_file(p) = C18_From(files[p], 1)
    /\ (lastOp.op = "startImport" /\ lastOp.arg \in DOMAIN files
        /\ C18_From(files[lastOp.arg], 1) # <<>>)
          => /\ lastImportLines = C18_From(files[lastOp.arg], 1)
             /\ importCtl # 0
             /\ walkers[importCtl].lines = lastImportLines

\* the one line of the drawn file has a second ':' and a trailing blank: the
\* password is ":"
C18_Witness ==
    /\ lastOp.op = "startImport"
    /\ lastOp.arg = "drawn"
    /\ files["drawn"] = << "a", ":", ":", " " >>
    /\ lastImportLines = << << <<"a">>, <<":">> >> >>

\* what loadConfig of a new launch restores from the file saveConfig writes
\* in the current state
C19_Reloaded ==
    loadConfig(Fresh(saveConfig(S).cfg, dirs, warnLog, clipboard, now))

\* C19: for every in-memory state, saveConfig followed by loadConfig yields
\* the identical ordered profile list, last-active name and URL map.
C19_ConfigRoundTrip ==
    Running =>
        /\ C19_Reloaded.proc = "running"
        /\ C19_Reloaded.profiles = profiles
        /\ C19_Reloaded.lastActive = lastActive
        /\ C19_Reloaded.lastUrls = lastUrls

\* the program was closed and started again with two profiles, a last-active
\* name and two recorded addresses that no initial file holds
C19_Witness ==
    /\ Running
    /\ lastOp.op = "startup"
    /\ profiles = << SteamName(1), SteamName(2) >>
    /\ lastActive = SteamName(2)
    /\ DOMAIN lastUrls = {SteamName(1), SteamName(2)}
    /\ lastUrls[SteamName(1)] = OTHER_SITE_URL
    /\ lastUrls[SteamName(2)] = LOGIN_HOST_URL

\* one step of C20: a timer or callback fires while every due one targets a
\* surface that deleteProfile destroyed
C20_Step ==
    (/\ lastOp'.op = "timer"
     /\ \A t \in timers : t.due <= now => t.view \notin DOMAIN views)
        => /\ proc' = proc
           /\ views' = views
           /\ lastReload' = lastReload
           /\ timers' \subseteq timers

\* C20: every delayed timer and asynchronous engine callback of the health
\* monitor (150 ms reloads, 800 ms and 1000 ms post-load checks, 400 ms
\* scripted blank check, content-extraction callback) is a no-op when the
\* session it targets was destroyed by deleteProfile before it fires.
C20_DestroyedSessionTimerNoOp == [][C20_Step]_vars

\* one step of C21
C21_Step ==
    /\ lastOp'.op = "addAccount" =>
          \A w \in 1..Len(walkers) :
              walkers[w].active => walkers'[w].index = walkers[w].index
    /\ (lastOp'.op = "answer" /\ lastOp'.arg = "Copy") =>
          /\ walkers'[prompt.w].index = walkers[prompt.w].index
          /\ walkers'[prompt.w].index = prompt.idx
          /\ prompt.idx < Len(walkers[prompt.w].lines)
          /\ clipboard' = TextLine(walkers[prompt.w].lines[
                                       walkers[prompt.w].index + 1])

\* C21: Copy at the prompt of a newly created profile puts login:password of
\* the pair at the walker's current cursor on the clipboard, and the cursor
\* after Copy is the cursor the walker had when the prompt was triggered;
\* creating the profile and answering Copy never advance the cursor.
C21_CopyKeepsCursor == [][C21_Step]_vars

\* the location is on the destination site and is no sign-in page
C22_ConfirmsSignIn(u) ==
    /\ isSteamUrl(u)
    /\ u \notin {LOGIN_PAGE_URL, LOGIN_HOST_URL}

\* one step of C22: the surface v went to a new location
C22_Step ==
    lastOp'.op = "urlChanged" =>
        \A v \in DOMAIN views :
            (v \in DOMAIN views' /\ views'[v].url # views[v].url) =>
                \A w \in 1..Len(walkers) :
                    (walkers[w].active
                       /\ walkers[w].index < Len(walkers[w].lines)) =>
                        walkers'[w].index =
                            IF /\ currentName \in DOMAIN browsers
                               /\ browsers[currentName] = v
                               /\ C22_ConfirmsSignIn(views'[v].url)
                            THEN walkers[w].index + 1
                            ELSE walkers[w].index

\* C22: while a walker is Active and not exhausted, a navigation event
\* advances its cursor by exactly one if and only if it comes from the focused
\* session and the new location is on the destination site and is no sign-in
\* URL; events of background sessions, other sites and sign-in URLs, also
\* those of the dedicated login host, leave the cursor unchanged.
C22_AdvanceOnlyOnSignedIn == [][C22_Step]_vars

\* one step of C23: the check of kind k on surface v ran (its callback was due)
C23_Ran(k, v) ==
    /\ lastOp'.op = "timer"
    /\ lastOp'.arg = k
    /\ v \in DOMAIN views'
    /\ \E t \in timers : t.kind = k /\ t.view = v /\ t.due <= now

C23_Step ==
    \A v \in DOMAIN views :
        /\ C23_Ran("toHtml", v) =>
              IF views[v].html >= MIN_HTML_LEN
              THEN views'[v].blank_fix_tries = 0
              ELSE views'[v].blank_fix_tries >= views[v].blank_fix_tries
        /\ C23_Ran("jsResult", v) =>
              IF ~views[v].domEmpty
              THEN views'[v].blank_fix_tries = 0
              ELSE views'[v].blank_fix_tries >= views[v].blank_fix_tries

\* C23: the blank-render retry counter of a session is reset to zero whenever
\* a blank check of that session (the extracted-HTML check or the scripted DOM
\* check) finds the page non-blank, and no check that finds the page blank
\* resets it.
C23_CounterResetOnNonBlank == [][C23_Step]_vars

\* C24: after every completed switchAccount, addAccount and deleteProfile,
\* browserLayout holds exactly the surface of the focused session when a
\* session is focused and nothing otherwise; it never holds a surface twice
\* and never the surface of a background session
C24_SlotHoldsFocusedOnly ==
    (Running /\ lastOp.op \in {"switchAccount", "addAccount", "deleteProfile"})
        => /\ layout = IF currentName \in DOMAIN browsers
                       THEN <<browsers[currentName]>>
                       ELSE << >>
           /\ \A i, j \in 1..Len(layout) : layout[i] = layout[j] => i = j
           /\ \A n \in DOMAIN browsers :
                  n # currentName => browsers[n] \notin Range(layout)

\* the focused profile of two was deleted and the slot holds the other surface
C24_Witness ==
    /\ Running
    /\ lastOp.op = "deleteProfile"
    /\ Len(profiles) = 1
    /\ currentName = profiles[1]
    /\ currentName \in DOMAIN browsers
    /\ layout = <<browsers[currentName]>>
    /\ Len(contexts) >= 2

\* one step of C25
C25_Step ==
    /\ Running' =>
          /\ \A key \in DOMAIN popupsByProfile' : key \in DOMAIN browsers'
          /\ \A key \in DOMAIN popupsByProfile' :
                 \A p \in Range(popupsByProfile'[key]) :
                     p \in DOMAIN popups' /\ p \notin zombies'
    /\ \A p \in zombies :
          p \in DOMAIN popups' => popups'[p].shown = popups[p].shown

C26_Step ==
    /\ (Running' /\ lastOp'.op \in {"startup", "addAccount", "deleteProfile"}) =>
          /\ Range(profiles') = DOMAIN browsers'
          /\ \A i, j \in 1..Len(profiles') : profiles'[i] = profiles'[j] => i = j
          /\ \A n \in DOMAIN browsers' :
                 /\ browsers'[n] \in DOMAIN views'
                 /\ views'[browsers'[n]].pname = n
          /\ \A v \in DOMAIN views' :
                 \E n \in DOMAIN browsers' : browsers'[n] = v
    /\ (Running' /\ lastOp'.op = "addAccount") =>
          /\ lastOp'.name \notin DOMAIN browsers
          /\ \A n \in DOMAIN browsers :
                 n \in DOMAIN browsers' /\ browsers'[n] = browsers[n]

\* C26: after startup, addAccount and deleteProfile the names of the profile
\* list are the names of the session registry, the list has no duplicates, each
\* name is bound to one live surface of its own and every live surface is bound,
\* and addAccount leaves every existing binding as it was
C26_ListMatchesRegistry == [][C26_Step]_vars

\* a second profile was added next to the first
C26_Witness ==
    /\ Running
    /\ lastOp.op = "addAccount"
    /\ Len(profiles) = 2
    /\ Cardinality(DOMAIN browsers) = 2
    /\ Cardinality(DOMAIN views) = 2

\* one step of C27
C27_Step ==
    /\ (/\ Running'
        /\ lastOp'.op = "deleteProfile"
        /\ lastOp'.arg = "yes"
        /\ lastOp'.name \notin DOMAIN browsers')
          => lastOp'.name \notin DOMAIN Persisted'.lastUrls
    /\ (Running /\ Running') =>
          \A n \in DOMAIN Persisted'.lastUrls :
              \/ n \in DOMAIN Persisted.lastUrls
              \/ n \in DOMAIN browsers
              \/ n \in DOMAIN browsers'

\* C27: a confirmed deleteProfile(name) leaves the saved last_urls without an
\* entry for name, and while name is in no session registry no step gives the
\* saved last_urls an entry for it
C27_DeletedUrlStaysGone == [][C27_Step]_vars

\* one step of C28
C28_Step ==
    (Running /\ lastOp'.op \in {"navigateCurrent", "navigateToUrl",
                               "callOnCurrent"})
        => /\ Running'
           /\ currentName = "" \/ currentName \in DOMAIN browsers

\* C28: navigateCurrent, navigateToUrl and callOnCurrent never fail: in every
\* state they act on a session of the registry or do nothing, and the program
\* keeps running
C28_ToolbarNeverFails == [][C28_Step]_vars

\* C29: after a confirmed deleteProfile that leaves a profile, the focused
\* session and lastActive are the first profile of the remaining list, and
\* that profile has a session; when no profile remains lastActive is empty
C29_FocusFirstAfterDelete ==
    (/\ Running
     /\ lastOp.op = "deleteProfile"
     /\ lastOp.arg = "yes"
     /\ lastOp.name \notin DOMAIN browsers)
        => IF profiles # << >>
           THEN /\ lastActive = profiles[1]
                /\ currentName = profiles[1]
                /\ currentName \in DOMAIN browsers
                /\ layout = <<browsers[currentName]>>
           ELSE lastActive = ""

\* the second of three profiles was deleted, the first and the third remain:
\* the focus is on the first
C29_Witness ==
    /\ Running
    /\ lastOp.op = "deleteProfile"
    /\ lastOp.arg = "yes"
    /\ lastOp.name = SteamName(2)
    /\ profiles = <<SteamName(1), SteamName(3)>>
    /\ currentName = SteamName(1)
    /\ lastActive = SteamName(1)

\* one step of C30
C30_Step ==
    (Running' /\ lastOp'.op = "addAccount")
        => /\ lastOp'.name \notin DOMAIN browsers
           /\ lastOp'.name \notin dirs

\* C30: the name addAccount gives a new profile is in no session registry, and
\* the storage directory of that name does not exist when the profile is
\* created, so that it holds nothing an earlier profile of the name has written
C30_NewProfileStartsClean == [][C30_Step]_vars

====
